---- MODULE Spec2Model ----
(***************************************************************************)
(* Model of the Lox scanner of src/scanner.ts.                             *)
(*                                                                         *)
(* Characters are UTF-16 code units (integers), so that the range tests of *)
(* isDigit and isAlpha are the comparisons the code makes.  A source text  *)
(* is a sequence of code units; offsets (start, current) are 0-based as in *)
(* the code, source[i + 1] is the character at offset i.                   *)
(*                                                                         *)
(* The state is the Scanner object's fields, the position of the control   *)
(* inside scanTokens (pc), the calls made on the Diagnostic Sink           *)
(* (Lox.error) and two history variables: one record per finished         *)
(* iteration of the main loop, and a copy of the array contents at the     *)
(* first return of scanTokens.                                             *)
(***************************************************************************)
EXTENDS Integers, Sequences, FiniteSets, TLC

VARIABLES source, tokens, start, current, line, pc, reports, iterations,
          calls, firstReturn

vars == <<source, tokens, start, current, line, pc, reports, iterations,
          calls, firstReturn>>

(***************************************************************************)
(* Bounds.                                                                 *)
(***************************************************************************)
\* longest source text enumerated over Alphabet
MaxLen == 3
\* longest source text enumerated over CoreAlphabet
MaxCoreLen == 5
\* number of scanTokens calls made on one Scanner in SpecReuse
MaxCalls == 3

(***************************************************************************)
(* Characters.                                                             *)
(***************************************************************************)
\* code units of the characters the scanner names
Ch == [nul |-> 0, tab |-> 9, nl |-> 10, cr |-> 13, space |-> 32, bang |-> 33,
       quote |-> 34, lparen |-> 40, rparen |-> 41, star |-> 42, plus |-> 43,
       comma |-> 44, minus |-> 45, dot |-> 46, slash |-> 47, d0 |-> 48,
       d9 |-> 57, semicolon |-> 59, less |-> 60, equal |-> 61,
       greater |-> 62, upA |-> 65, upZ |-> 90, underscore |-> 95,
       a |-> 97, z |-> 122, lbrace |-> 123, rbrace |-> 125]

\* the empty string, the value of charAt out of range
NoChar == -1

\* the characters the short source texts are made of:
\* . ! = / space newline " 1 a @
Alphabet == {46, 33, 61, 47, 32, 10, 34, 49, 97, 64}

\* the characters the longer source texts are made of: . / newline " 1
CoreAlphabet == {46, 47, 10, 34, 49}

Texts(chars, n) == UNION {[1..k -> chars] : k \in 0..n}

\* source texts named by the specification and a few longer ones
Examples ==
    { <<34, 97, 98, 99>>,                          \* "abc   (unterminated)
      <<47, 47, 32, 104, 101, 108, 108, 111, 10, 49>>,   \* // hello\n1
      <<99, 108, 97, 115, 115, 105, 99>>,          \* classic
      <<99, 108, 97, 115, 115>>,                   \* class
      <<49, 46, 53>>,                              \* 1.5
      <<60, 61, 62, 61, 60, 62>>,                  \* <=>=<>
      <<34, 97, 10, 98, 34, 10, 49>>,              \* "a\nb"\n1
      <<34, 92, 34, 34>>,                          \* "\""
      <<123, 125, 41, 44, 45, 43, 59, 42>>,        \* {}),-+;*
      <<9, 13, 0, 95, 90, 57>>,                    \* \t \r NUL _Z9
      <<91, 97, 93>>,                              \* [a]
      <<10, 47, 47, 97, 10, 34, 97, 10, 34, 34, 10>>,   \* \n//a\n"a\n""\n
      <<49, 50, 46, 53, 48, 46, 97>>,              \* 12.50.a
      <<111, 114, 32, 79, 114, 32, 111, 114, 95>>, \* or Or or_
      <<118, 97, 114, 32, 120, 61, 49, 59, 47, 47, 99>>,   \* var x=1;//c
      \* and class else false for fun if nil or print return super this
      \* true var while
      <<97, 110, 100, 32, 99, 108, 97, 115, 115, 32, 101, 108, 115, 101,
       32, 102, 97, 108, 115, 101, 32, 102, 111, 114, 32, 102, 117, 110,
       32, 105, 102, 32, 110, 105, 108, 32, 111, 114, 32, 112, 114, 105,
       110, 116, 32, 114, 101, 116, 117, 114, 110, 32, 115, 117, 112,
       101, 114, 32, 116, 104, 105, 115, 32, 116, 114, 117, 101, 32, 118,
       97, 114, 32, 119, 104, 105, 108, 101>>,
      \* And classs nil_ fo _if if1 1if fun.for
      <<65, 110, 100, 32, 99, 108, 97, 115, 115, 115, 32, 110, 105, 108,
       95, 32, 102, 111, 32, 95, 105, 102, 32, 105, 102, 49, 32, 49, 105,
       102, 32, 102, 117, 110, 46, 102, 111, 114>> }

(***************************************************************************)
(* Scanner helpers, as functions of the fields they read.                  *)
(***************************************************************************)
Min(a, b) == IF a < b THEN a ELSE b
Max(a, b) == IF a > b THEN a ELSE b

\* String.prototype.charAt: the empty string when out of range
charAt(src, i) == IF i >= 0 /\ i < Len(src) THEN src[i + 1] ELSE NoChar

\* String.prototype.substring: clamps both indices and swaps them if needed
substring(src, a, b) ==
    LET ca == Min(Max(a, 0), Len(src))
        cb == Min(Max(b, 0), Len(src))
    IN  SubSeq(src, Min(ca, cb) + 1, Max(ca, cb))

isAtEnd(src, cur) == cur >= Len(src)

peek(src, cur) == IF isAtEnd(src, cur) THEN Ch.nul ELSE charAt(src, cur)

\* peekNext that reads the character at current
peekNextAtCurrent(src, cur) ==
    IF cur + 1 >= Len(src) THEN Ch.nul ELSE charAt(src, cur)

peekNext(src, cur) ==
    IF cur + 1 >= Len(src) THEN Ch.nul ELSE charAt(src, cur + 1)

isDigit(c) == c >= Ch.d0 /\ c <= Ch.d9

\* isAlpha with the two letter ranges merged into "A".."z"
isAlphaOneRange(c) == (Ch.upA <= c /\ c <= Ch.z) \/ c = Ch.underscore

isAlpha(c) == \/ (Ch.a <= c /\ c <= Ch.z)
              \/ (Ch.upA <= c /\ c <= Ch.upZ)
              \/ c = Ch.underscore

isAlphaNumeric(c) == isAlpha(c) \/ isDigit(c)

(***************************************************************************)
(* Tokens.                                                                 *)
(***************************************************************************)
\* the literal of a token that has none (addToken's default argument)
NullLiteral == [kind |-> "null"]

StringLiteral(chars) == [kind |-> "string", value |-> chars]

RECURSIVE DigitsValue(_)
DigitsValue(ds) ==
    IF ds = <<>> THEN 0
    ELSE 10 * DigitsValue(SubSeq(ds, 1, Len(ds) - 1)) + (ds[Len(ds)] - Ch.d0)

RECURSIVE Normalise(_, _)
Normalise(mant, exp) ==
    IF exp > 0 /\ mant % 10 = 0 THEN Normalise(mant \div 10, exp - 1)
    ELSE [kind |-> "number", mant |-> mant, exp |-> exp]

\* parseFloat on a text of the shape digits [ "." digits ]: the number
\* mant / 10^exp in lowest decimal form, so that "1.50" and "1.5" decode to
\* the same value (the texts of the model are far too short to lose
\* precision in a double)
parseFloat(text) ==
    LET dots == {i \in 1..Len(text) : text[i] = Ch.dot}
        dot  == IF dots = {} THEN Len(text) + 1
                ELSE CHOOSE i \in dots : \A j \in dots : i <= j
        int  == SubSeq(text, 1, dot - 1)
        frac == SubSeq(text, dot + 1, Len(text))
    IN  Normalise(DigitsValue(int \o frac), Len(frac))

\* new Token(type, lexeme, literal, line)
Token(type, lexeme, literal, ln) ==
    [type |-> type, lexeme |-> lexeme, literal |-> literal, line |-> ln]

\* the reserved words and their token types
KEYWORDS ==
    (<<97, 110, 100>> :> "AND") @@                      \* and
    (<<99, 108, 97, 115, 115>> :> "CLASS") @@           \* class
    (<<101, 108, 115, 101>> :> "ELSE") @@               \* else
    (<<102, 97, 108, 115, 101>> :> "FALSE") @@          \* false
    (<<102, 111, 114>> :> "FOR") @@                     \* for
    (<<102, 117, 110>> :> "FUN") @@                     \* fun
    (<<105, 102>> :> "IF") @@                           \* if
    (<<110, 105, 108>> :> "NIL") @@                     \* nil
    (<<111, 114>> :> "OR") @@                           \* or
    (<<112, 114, 105, 110, 116>> :> "PRINT") @@         \* print
    (<<114, 101, 116, 117, 114, 110>> :> "RETURN") @@   \* return
    (<<115, 117, 112, 101, 114>> :> "SUPER") @@         \* super
    (<<116, 104, 105, 115>> :> "THIS") @@               \* this
    (<<116, 114, 117, 101>> :> "TRUE") @@               \* true
    (<<118, 97, 114>> :> "VAR") @@                      \* var
    (<<119, 104, 105, 108, 101>> :> "WHILE")            \* while

\* keywordType that takes a reserved word at the start of the text for the
\* text
keywordTypeByPrefix(text) ==
    LET hits == {k \in DOMAIN KEYWORDS :
                    Len(k) <= Len(text) /\ SubSeq(text, 1, Len(k)) = k}
    IN  IF hits = {} THEN "IDENTIFIER"
        ELSE KEYWORDS[CHOOSE k \in hits : \A h \in hits : Len(h) <= Len(k)]

\* KEYWORDS.get(text), with IDENTIFIER when the text is no key
keywordType(text) ==
    IF text \in DOMAIN KEYWORDS THEN KEYWORDS[text] ELSE "IDENTIFIER"

\* the switch cases that add one fixed token without lookahead
PunctuationType ==
    (Ch.lparen :> "LEFT_PAREN") @@ (Ch.rparen :> "RIGHT_PAREN") @@
    (Ch.lbrace :> "LEFT_BRACE") @@ (Ch.rbrace :> "RIGHT_BRACE") @@
    (Ch.comma :> "COMMA") @@ (Ch.dot :> "DOT") @@ (Ch.minus :> "MINUS") @@
    (Ch.plus :> "PLUS") @@ (Ch.semicolon :> "SEMICOLON") @@
    (Ch.star :> "STAR")

\* the switch cases that look for a trailing "=":
\* character -> <<type without "=", type with "=">>
OperatorType ==
    (Ch.bang :> <<"BANG", "BANG_EQUAL">>) @@
    (Ch.equal :> <<"EQUAL", "EQUAL_EQUAL">>) @@
    (Ch.less :> <<"LESS", "LESS_EQUAL">>) @@
    (Ch.greater :> <<"GREATER", "GREATER_EQUAL">>)

Whitespace == {Ch.space, Ch.cr, Ch.tab}

\* match that does not consume the character it matched
matchNoAdvance(src, cur, expected) ==
    IF peek(src, cur) # expected THEN [ok |-> FALSE, current |-> cur]
    ELSE [ok |-> TRUE, current |-> cur]

\* match(expected): whether the next character is the expected one, and the
\* value of current afterwards
match(src, cur, expected) ==
    IF peek(src, cur) # expected THEN [ok |-> FALSE, current |-> cur]
    ELSE [ok |-> TRUE, current |-> cur + 1]

\* addToken with the lexeme one character short
addTokenShortLexeme(toks, src, st, cur, ln, type, literal) ==
    Append(toks, Token(type, substring(src, st, cur - 1), literal, ln))

\* addToken(type, literal): the tokens array after the push
addToken(toks, src, st, cur, ln, type, literal) ==
    Append(toks, Token(type, substring(src, st, cur), literal, ln))

\* Lox.error(line, message): the calls received by the Diagnostic Sink
error(reps, ln, message) == Append(reps, [line |-> ln, message |-> message])

\* one finished iteration of the main loop: the span it consumed and what
\* the lexeme-recognition step did with it
Iteration(from, to, kind) == [from |-> from, to |-> to, kind |-> kind]

(***************************************************************************)
(* The state after new Scanner(source).                                    *)
(***************************************************************************)
Constructed(src) ==
    /\ source = src
    /\ tokens = <<>>
    /\ start = 0
    /\ current = 0
    /\ line = 1
    /\ reports = <<>>
    /\ iterations = <<>>
    /\ calls = 0
    /\ firstReturn = <<>>
    /\ pc = "loop"

\* the source texts the scanner is constructed with
Sources ==
    Texts(Alphabet, MaxLen) \cup Texts(CoreAlphabet, MaxCoreLen) \cup Examples

Init == \E src \in Sources : Constructed(src)

(***************************************************************************)
(* scanTokens: one iteration of the main loop starts with start = current  *)
(* and scanToken's advance(), then dispatches on the character read.       *)
(***************************************************************************)
\* the loop test holds: the iteration is entered
Entered == pc = "loop" /\ ~isAtEnd(source, current)

\* const c = this.advance()
c == charAt(source, current)

\* an iteration that ends within this step
EndIteration(from, to, kind) ==
    /\ pc' = "loop"
    /\ iterations' = Append(iterations, Iteration(from, to, kind))

Frame == UNCHANGED <<source, calls, firstReturn>>

ScanPunctuation ==
    /\ Entered
    /\ c \in DOMAIN PunctuationType
    /\ start' = current
    /\ current' = current + 1
    /\ tokens' = addToken(tokens, source, start', current', line,
                          PunctuationType[c], NullLiteral)
    /\ EndIteration(current, current', "token")
    /\ UNCHANGED <<line, reports>>
    /\ Frame

ScanOperator ==
    /\ Entered
    /\ c \in DOMAIN OperatorType
    /\ start' = current
    /\ LET m == match(source, current + 1, Ch.equal)
       IN  /\ current' = m.current
           /\ tokens' = addToken(tokens, source, start', current', line,
                                 OperatorType[c][IF m.ok THEN 2 ELSE 1],
                                 NullLiteral)
    /\ EndIteration(current, current', "token")
    /\ UNCHANGED <<line, reports>>
    /\ Frame

ScanSlash ==
    /\ Entered
    /\ c = Ch.slash
    /\ start' = current
    /\ LET m == match(source, current + 1, Ch.slash)
       IN  /\ current' = m.current
           /\ IF m.ok
              THEN /\ pc' = "comment"
                   /\ UNCHANGED <<tokens, iterations>>
              ELSE /\ tokens' = addToken(tokens, source, start', current',
                                         line, "SLASH", NullLiteral)
                   /\ EndIteration(current, current', "token")
    /\ UNCHANGED <<line, reports>>
    /\ Frame

\* CommentLoop that also consumes the newline that ends the comment
CommentLoopThroughNewline ==
    /\ pc = "comment"
    /\ IF peek(source, current) # Ch.nl /\ ~isAtEnd(source, current)
       THEN /\ current' = current + 1
            /\ UNCHANGED <<pc, iterations>>
       ELSE /\ current' = IF isAtEnd(source, current) THEN current
                          ELSE current + 1
            /\ EndIteration(start, current', "comment")
    /\ UNCHANGED <<start, tokens, line, reports>>
    /\ Frame

\* while (this.peek() != "\n" && !this.isAtEnd()) this.advance();
CommentLoop ==
    /\ pc = "comment"
    /\ IF peek(source, current) # Ch.nl /\ ~isAtEnd(source, current)
       THEN /\ current' = current + 1
            /\ UNCHANGED <<pc, iterations>>
       ELSE /\ UNCHANGED current
            /\ EndIteration(start, current, "comment")
    /\ UNCHANGED <<start, tokens, line, reports>>
    /\ Frame

\* ScanWhitespace in a loop that does not reset start for skipped characters
ScanWhitespaceKeepsStart ==
    /\ Entered
    /\ c \in Whitespace
    /\ current' = current + 1
    /\ EndIteration(current, current', "blank")
    /\ UNCHANGED <<start, tokens, line, reports>>
    /\ Frame

ScanWhitespace ==
    /\ Entered
    /\ c \in Whitespace
    /\ start' = current
    /\ current' = current + 1
    /\ EndIteration(current, current', "blank")
    /\ UNCHANGED <<tokens, line, reports>>
    /\ Frame

ScanNewline ==
    /\ Entered
    /\ c = Ch.nl
    /\ start' = current
    /\ current' = current + 1
    /\ line' = line + 1
    /\ EndIteration(current, current', "newline")
    /\ UNCHANGED <<tokens, reports>>
    /\ Frame

ScanQuote ==
    /\ Entered
    /\ c = Ch.quote
    /\ start' = current
    /\ current' = current + 1
    /\ pc' = "string"
    /\ UNCHANGED <<tokens, line, reports, iterations>>
    /\ Frame

\* StringLoop without the count of the newlines inside the string
StringLoopNoLine ==
    /\ pc = "string"
    /\ peek(source, current) # Ch.quote /\ ~isAtEnd(source, current)
    /\ current' = current + 1
    /\ UNCHANGED <<start, tokens, line, pc, reports, iterations>>
    /\ Frame

\* StringLoop without the test for the end of the source
StringLoopNoEndTest ==
    /\ pc = "string"
    /\ peek(source, current) # Ch.quote
    /\ line' = IF peek(source, current) = Ch.nl THEN line + 1 ELSE line
    /\ current' = current + 1
    /\ UNCHANGED <<start, tokens, pc, reports, iterations>>
    /\ Frame

\* string(): the loop up to the closing quote or the end of the source
StringLoop ==
    /\ pc = "string"
    /\ peek(source, current) # Ch.quote /\ ~isAtEnd(source, current)
    /\ line' = IF peek(source, current) = Ch.nl THEN line + 1 ELSE line
    /\ current' = current + 1
    /\ UNCHANGED <<start, tokens, pc, reports, iterations>>
    /\ Frame

\* StringEnd with the closing quote left in the literal
StringEndLiteralWithQuote ==
    /\ pc = "string"
    /\ ~(peek(source, current) # Ch.quote /\ ~isAtEnd(source, current))
    /\ IF isAtEnd(source, current)
       THEN /\ reports' = error(reports, line, "unexpected character.")
            /\ UNCHANGED <<current, tokens>>
            /\ EndIteration(start, current, "unterminated")
       ELSE /\ current' = current + 1
            /\ tokens' = addToken(tokens, source, start, current', line,
                   "STRING",
                   StringLiteral(substring(source, start + 1, current')))
            /\ UNCHANGED reports
            /\ EndIteration(start, current', "token")
    /\ UNCHANGED <<start, line>>
    /\ Frame

\* StringEnd that, after adding the token, sets line back to the line of
\* the opening quote
StringEndRestoresLine ==
    /\ pc = "string"
    /\ ~(peek(source, current) # Ch.quote /\ ~isAtEnd(source, current))
    /\ IF isAtEnd(source, current)
       THEN /\ reports' = error(reports, line, "unexpected character.")
            /\ UNCHANGED <<current, tokens, line>>
            /\ EndIteration(start, current, "unterminated")
       ELSE /\ current' = current + 1
            /\ tokens' = addToken(tokens, source, start, current', line,
                   "STRING",
                   StringLiteral(substring(source, start + 1, current' - 1)))
            /\ line' = line - Cardinality({i \in start..current :
                                              charAt(source, i) = Ch.nl})
            /\ UNCHANGED reports
            /\ EndIteration(start, current', "token")
    /\ UNCHANGED start
    /\ Frame

\* string(): after the loop
StringEnd ==
    /\ pc = "string"
    /\ ~(peek(source, current) # Ch.quote /\ ~isAtEnd(source, current))
    /\ IF isAtEnd(source, current)
       THEN /\ reports' = error(reports, line, "unexpected character.")
            /\ UNCHANGED <<current, tokens>>
            /\ EndIteration(start, current, "unterminated")
       ELSE /\ current' = current + 1
            /\ tokens' = addToken(tokens, source, start, current', line,
                   "STRING",
                   StringLiteral(substring(source, start + 1, current' - 1)))
            /\ UNCHANGED reports
            /\ EndIteration(start, current', "token")
    /\ UNCHANGED <<start, line>>
    /\ Frame

ScanDigit ==
    /\ Entered
    /\ c \notin DOMAIN PunctuationType \cup DOMAIN OperatorType
                \cup Whitespace \cup {Ch.slash, Ch.nl, Ch.quote}
    /\ isDigit(c)
    /\ start' = current
    /\ current' = current + 1
    /\ pc' = "number"
    /\ UNCHANGED <<tokens, line, reports, iterations>>
    /\ Frame

\* number(): the first digit loop, then the test for a fractional part
NumberLoop ==
    /\ pc = "number"
    /\ IF isDigit(peek(source, current))
       THEN /\ current' = current + 1
            /\ UNCHANGED <<pc, tokens, iterations>>
       ELSE IF peek(source, current) = Ch.dot
               /\ isDigit(peekNext(source, current))
       THEN /\ current' = current + 1
            /\ pc' = "fraction"
            /\ UNCHANGED <<tokens, iterations>>
       ELSE /\ UNCHANGED current
            /\ tokens' = addToken(tokens, source, start, current, line,
                   "NUMBER", parseFloat(substring(source, start, current)))
            /\ EndIteration(start, current, "token")
    /\ UNCHANGED <<start, line, reports>>
    /\ Frame

\* number(): the digit loop after the dot
FractionLoop ==
    /\ pc = "fraction"
    /\ IF isDigit(peek(source, current))
       THEN /\ current' = current + 1
            /\ UNCHANGED <<pc, tokens, iterations>>
       ELSE /\ UNCHANGED current
            /\ tokens' = addToken(tokens, source, start, current, line,
                   "NUMBER", parseFloat(substring(source, start, current)))
            /\ EndIteration(start, current, "token")
    /\ UNCHANGED <<start, line, reports>>
    /\ Frame

ScanAlpha ==
    /\ Entered
    /\ c \notin DOMAIN PunctuationType \cup DOMAIN OperatorType
                \cup Whitespace \cup {Ch.slash, Ch.nl, Ch.quote}
    /\ ~isDigit(c)
    /\ isAlpha(c)
    /\ start' = current
    /\ current' = current + 1
    /\ pc' = "identifier"
    /\ UNCHANGED <<tokens, line, reports, iterations>>
    /\ Frame

\* identifier()
IdentifierLoop ==
    /\ pc = "identifier"
    /\ IF isAlphaNumeric(peek(source, current))
       THEN /\ current' = current + 1
            /\ UNCHANGED <<pc, tokens, iterations>>
       ELSE /\ UNCHANGED current
            /\ tokens' = addToken(tokens, source, start, current, line,
                   keywordType(substring(source, start, current)),
                   NullLiteral)
            /\ EndIteration(start, current, "token")
    /\ UNCHANGED <<start, line, reports>>
    /\ Frame

\* ScanUnexpected that counts the unexpected character as a line
ScanUnexpectedCountsLine ==
    /\ Entered
    /\ c \notin DOMAIN PunctuationType \cup DOMAIN OperatorType
                \cup Whitespace \cup {Ch.slash, Ch.nl, Ch.quote}
    /\ ~isDigit(c)
    /\ ~isAlpha(c)
    /\ start' = current
    /\ current' = current + 1
    /\ line' = line + 1
    /\ reports' = error(reports, line, "Unexpected character.")
    /\ EndIteration(current, current', "unexpected")
    /\ UNCHANGED tokens
    /\ Frame

ScanUnexpected ==
    /\ Entered
    /\ c \notin DOMAIN PunctuationType \cup DOMAIN OperatorType
                \cup Whitespace \cup {Ch.slash, Ch.nl, Ch.quote}
    /\ ~isDigit(c)
    /\ ~isAlpha(c)
    /\ start' = current
    /\ current' = current + 1
    /\ reports' = error(reports, line, "Unexpected character.")
    /\ EndIteration(current, current', "unexpected")
    /\ UNCHANGED <<tokens, line>>
    /\ Frame

\* Return with the EOF token pushed by addToken, which takes the lexeme from
\* the source
ReturnViaAddToken ==
    /\ pc = "loop"
    /\ isAtEnd(source, current)
    /\ tokens' = addToken(tokens, source, start, current, line, "EOF",
                          NullLiteral)
    /\ pc' = "done"
    /\ calls' = calls + 1
    /\ firstReturn' = IF calls = 0 THEN tokens' ELSE firstReturn
    /\ UNCHANGED <<source, start, current, line, reports, iterations>>

\* Return without the push of the EOF token
ReturnWithoutPush ==
    /\ pc = "loop"
    /\ isAtEnd(source, current)
    /\ pc' = "done"
    /\ calls' = calls + 1
    /\ firstReturn' = IF calls = 0 THEN tokens ELSE firstReturn
    /\ UNCHANGED <<source, tokens, start, current, line, reports,
                   iterations>>

\* the loop test fails: push the EOF token and return this.tokens
Return ==
    /\ pc = "loop"
    /\ isAtEnd(source, current)
    /\ tokens' = Append(tokens, Token("EOF", <<>>, NullLiteral, line))
    /\ pc' = "done"
    /\ calls' = calls + 1
    /\ firstReturn' = IF calls = 0 THEN tokens' ELSE firstReturn
    /\ UNCHANGED <<source, start, current, line, reports, iterations>>

\* scanTokens is called again on the same Scanner
CallAgain ==
    /\ pc = "done"
    /\ calls < MaxCalls
    /\ pc' = "loop"
    /\ UNCHANGED <<source, tokens, start, current, line, reports, iterations,
                   calls, firstReturn>>

Next ==
    \/ ScanPunctuation
    \/ ScanOperator
    \/ ScanSlash
    \/ CommentLoop
    \/ ScanWhitespace
    \/ ScanNewline
    \/ ScanQuote
    \/ StringLoop
    \/ StringEnd
    \/ ScanDigit
    \/ NumberLoop
    \/ FractionLoop
    \/ ScanAlpha
    \/ IdentifierLoop
    \/ ScanUnexpected
    \/ Return

\* one Scanner, one call of scanTokens
Spec == Init /\ [][Next]_vars

\* the same, with the steps of the (sequential, uninterrupted) call taken
FairSpec == Init /\ [][Next]_vars /\ WF_vars(Next)

NextReuse == Next \/ CallAgain

\* one Scanner, scanTokens called up to MaxCalls times
SpecReuse == Init /\ [][NextReuse]_vars

(***************************************************************************)
(* new Scanner(src).scanTokens() as a function of src: the tokens a scan   *)
(* of the text src on its own returns (the reports are left out).          *)
(***************************************************************************)
\* string(): the value of current when the loop ends
RECURSIVE stringLoopEnd(_, _)
stringLoopEnd(src, cur) ==
    IF peek(src, cur) # Ch.quote /\ ~isAtEnd(src, cur)
    THEN stringLoopEnd(src, cur + 1) ELSE cur

\* string(): the number of times the loop increments line between two
\* values of current
stringLoopLines(src, from, to) ==
    Cardinality({i \in from..(to - 1) : charAt(src, i) = Ch.nl})

\* while (this.isDigit(this.peek())) this.advance();
RECURSIVE digitsEnd(_, _)
digitsEnd(src, cur) ==
    IF isDigit(peek(src, cur)) THEN digitsEnd(src, cur + 1) ELSE cur

\* number(): the value of current when the token is added
numberEnd(src, cur) ==
    LET e == digitsEnd(src, cur)
    IN  IF peek(src, e) = Ch.dot /\ isDigit(peekNext(src, e))
        THEN digitsEnd(src, e + 1) ELSE e

\* identifier(): the value of current when the token is added
RECURSIVE identifierEnd(_, _)
identifierEnd(src, cur) ==
    IF isAlphaNumeric(peek(src, cur)) THEN identifierEnd(src, cur + 1)
    ELSE cur

\* the comment loop: the value of current when it ends
RECURSIVE commentEnd(_, _)
commentEnd(src, cur) ==
    IF peek(src, cur) # Ch.nl /\ ~isAtEnd(src, cur)
    THEN commentEnd(src, cur + 1) ELSE cur

\* the main loop from current = cur, line = ln and tokens = toks
RECURSIVE scanFrom(_, _, _, _)
scanFrom(src, cur, ln, toks) ==
    IF isAtEnd(src, cur)
    THEN Append(toks, Token("EOF", <<>>, NullLiteral, ln))
    ELSE
      LET ch == charAt(src, cur)
          c1 == cur + 1
          one(type) == addToken(toks, src, cur, c1, ln, type, NullLiteral)
      IN
      CASE ch \in DOMAIN PunctuationType ->
             scanFrom(src, c1, ln, one(PunctuationType[ch]))
        [] ch \in DOMAIN OperatorType ->
             LET m == match(src, c1, Ch.equal)
             IN  scanFrom(src, m.current, ln,
                     addToken(toks, src, cur, m.current, ln,
                              OperatorType[ch][IF m.ok THEN 2 ELSE 1],
                              NullLiteral))
        [] ch = Ch.slash ->
             LET m == match(src, c1, Ch.slash)
             IN  IF m.ok
                 THEN scanFrom(src, commentEnd(src, m.current), ln, toks)
                 ELSE scanFrom(src, c1, ln, one("SLASH"))
        [] ch \in Whitespace -> scanFrom(src, c1, ln, toks)
        [] ch = Ch.nl -> scanFrom(src, c1, ln + 1, toks)
        [] ch = Ch.quote ->
             LET e == stringLoopEnd(src, c1)
                 l2 == ln + stringLoopLines(src, c1, e)
             IN  IF isAtEnd(src, e) THEN scanFrom(src, e, l2, toks)
                 ELSE scanFrom(src, e + 1, l2,
                         addToken(toks, src, cur, e + 1, l2, "STRING",
                             StringLiteral(substring(src, cur + 1, e))))
        [] OTHER ->
             IF isDigit(ch)
             THEN LET e == numberEnd(src, c1)
                  IN  scanFrom(src, e, ln,
                          addToken(toks, src, cur, e, ln, "NUMBER",
                                   parseFloat(substring(src, cur, e))))
             ELSE IF isAlpha(ch)
             THEN LET e == identifierEnd(src, c1)
                  IN  scanFrom(src, e, ln,
                          addToken(toks, src, cur, e, ln,
                                   keywordType(substring(src, cur, e)),
                                   NullLiteral))
             ELSE scanFrom(src, c1, ln, toks)

\* new Scanner(src).scanTokens()
scanTokensOf(src) == scanFrom(src, 0, 1, <<>>)

(***************************************************************************)
(* Properties.                                                             *)
(***************************************************************************)
Last(seq) == seq[Len(seq)]

IsEof(t) == t.type = "EOF"

\* C1: for every source text scanTokens terminates, and the last token of
\* the sequence it returns has type EOF and an empty lexeme.
C1_TerminatesWithEof ==
    <>[](/\ pc = "done"
         /\ Len(tokens) > 0
         /\ Last(tokens).type = "EOF"
         /\ Last(tokens).lexeme = <<>>)

\* a scan that emitted tokens and made reports has returned
C1_Witness ==
    /\ pc = "done"
    /\ Len(tokens) > 2
    /\ reports # <<>>
    /\ IsEof(Last(tokens))

\* C2: the sequence returned by scanTokens holds the EOF token exactly
\* once, as its last element, and no lexeme-recognition step emits EOF:
\* while the loop runs the array holds no EOF token at all.
C2_EofOnceAndLast ==
    /\ \A i \in 1..Len(tokens) :
          IsEof(tokens[i]) => (pc = "done" /\ i = Len(tokens))
    /\ pc = "done" => (Len(tokens) > 0 /\ IsEof(Last(tokens)))

\* a returned sequence with tokens before its EOF
C2_Witness ==
    /\ pc = "done"
    /\ Len(tokens) > 3
    /\ IsEof(Last(tokens))
    /\ \A i \in 1..(Len(tokens) - 1) : ~IsEof(tokens[i])

\* C3: once scanTokens has returned, the returned sequence (the array
\* this.tokens itself, which the caller holds) keeps the contents it had at
\* the first return, also when scanTokens is called again.
C3_ReturnedNeverChanges == calls >= 1 => tokens = firstReturn

\* the characters that start a lexeme the scanner recognises: punctuation,
\* operator characters, "/", whitespace, newline, the quote, digits,
\* letters and "_"
Recognised ==
    {40, 41, 123, 125, 44, 46, 45, 43, 59, 42} \cup {33, 61, 60, 62}
    \cup {47, 32, 13, 9, 10, 34} \cup (48..57) \cup (65..90) \cup (97..122)
    \cup {95}

UnexpectedReport(ln) == [line |-> ln, message |-> "Unexpected character."]

EofToken(ln) ==
    [type |-> "EOF", lexeme |-> <<>>, literal |-> [kind |-> "null"],
     line |-> ln]

\* C4: a lexeme-recognition step that starts at a character outside
\* Recognised sends exactly one unexpected-character report with the
\* current line, emits no token, consumes that one character and leaves
\* the scanner at the top of the loop, at the next character; scanning "@"
\* makes one report at line 1 and returns [EOF].
C4_UnexpectedCharacter ==
    /\ [][(pc = "loop" /\ current < Len(source)
           /\ source[current + 1] \notin Recognised)
          => /\ reports' = Append(reports, UnexpectedReport(line))
             /\ tokens' = tokens
             /\ line' = line
             /\ current' = current + 1
             /\ pc' = "loop"]_vars
    /\ []((pc = "done" /\ source = <<64>>)
          => (reports = <<UnexpectedReport(1)>> /\ tokens = <<EofToken(1)>>))

\* an unexpected character on a later line, between two tokens, was
\* reported and the scan went on to the end
C4_Witness ==
    /\ pc = "done"
    /\ \E i \in 2..(Len(source) - 1) :
          /\ source[i] \notin Recognised
          /\ source[i - 1] = 10
          /\ reports = <<UnexpectedReport(2)>>
          /\ Len(tokens) = 2

\* the kind of error a message names, letter case aside
KindOf(message) ==
    CASE message = "Unexpected character." -> "unexpected_character"
      [] message = "unexpected character." -> "unexpected_character"
      [] message = "Unterminated string." -> "unterminated_string"
      [] OTHER -> "other"

\* the finished iterations of one kind, in order
IterationsOf(kind) == SelectSeq(iterations, LAMBDA it : it.kind = kind)

\* C5: a string whose closing quote is missing makes exactly one report of
\* the unterminated-string kind and no token; scanning the text "abc (with
\* the opening quote only) returns the EOF token alone.
C5_UnterminatedStringReport ==
    pc = "done" =>
       /\ Cardinality({i \in 1..Len(reports) :
              KindOf(reports[i].message) = "unterminated_string"})
          = Len(IterationsOf("unterminated"))
       /\ Len(tokens) = Len(IterationsOf("token")) + 1
       /\ source = <<34, 97, 98, 99>> => tokens = <<EofToken(1)>>

\* the number of newline characters before offset off
NewlinesBefore(src, off) == Cardinality({i \in 1..off : src[i] = 10})

\* the k-th emitted token is the token of the k-th iteration that emitted
\* one
TokenIterations == IterationsOf("token")

HasNewline(text) == \E i \in 1..Len(text) : text[i] = 10

\* C6 as stated: every emitted token's line is 1 plus the number of
\* newlines before the first character of its lexeme, so a STRING token
\* that spans lines carries the line of its opening quote.
C6_LineOfFirstCharacter ==
    \A k \in 1..Len(TokenIterations) :
       tokens[k].line = 1 + NewlinesBefore(source, TokenIterations[k].from)

\* C6 as amended: every emitted token's line is 1 plus the number of
\* newlines before the end of its lexeme (the line of its last character);
\* that is the line of its first character for every token but a STRING
\* whose body holds newlines, which carries the line of its closing quote.
C6_LineOfLastCharacter ==
    \A k \in 1..Len(TokenIterations) :
       LET it == TokenIterations[k]
       IN  /\ tokens[k].lexeme = SubSeq(source, it.from + 1, it.to)
           /\ tokens[k].line = 1 + NewlinesBefore(source, it.to)
           /\ (tokens[k].type = "STRING" /\ HasNewline(tokens[k].lexeme))
              => tokens[k].line > 1 + NewlinesBefore(source, it.from)
           /\ ~(tokens[k].type = "STRING" /\ HasNewline(tokens[k].lexeme))
              => tokens[k].line = 1 + NewlinesBefore(source, it.from)

\* a STRING token that spans two lines was emitted after a token of line 1
\* and before another token
C6_Witness ==
    /\ pc = "done"
    /\ Len(tokens) = 4
    /\ tokens[1].line = 1
    /\ tokens[2].type = "STRING"
    /\ HasNewline(tokens[2].lexeme)
    /\ tokens[2].line = 2
    /\ tokens[3].line = 2

\* C7: the line counter starts at 1 and counts each newline of the source
\* once, when the cursor passes it, be it bare, the end of a comment or
\* inside a string (terminated or not): line is always 1 plus the number
\* of newlines before current, and the EOF token's line is 1 plus the
\* number of newlines of the whole source.
C7_LineCountsNewlines ==
    /\ line = 1 + NewlinesBefore(source, current)
    /\ pc = "done" =>
          Last(tokens).line = 1 + NewlinesBefore(source, Len(source))

\* a scan that passed a bare newline, a newline ending a comment, a
\* newline inside a terminated string and one inside an unterminated string
C7_Witness ==
    /\ pc = "done"
    /\ line = 5
    /\ Last(tokens).line = 5
    /\ Len(iterations) = 5
    /\ iterations[1].kind = "newline"
    /\ iterations[2].kind = "comment"
    /\ iterations[3].kind = "newline"
    /\ iterations[4].kind = "token"
    /\ HasNewline(tokens[1].lexeme)
    /\ iterations[5].kind = "unterminated"
    /\ HasNewline(SubSeq(source, iterations[5].from + 1, iterations[5].to))

\* the span of the source an iteration consumed
Span(it) == SubSeq(source, it.from + 1, it.to)

\* the number of tokens emitted by the first i iterations
TokensUpTo(i) ==
    Len(SelectSeq(SubSeq(iterations, 1, i), LAMBDA it : it.kind = "token"))

\* what iteration i contributes when the source is put together again: the
\* lexeme of its token, or the text it discarded
Piece(i) ==
    IF iterations[i].kind = "token" THEN tokens[TokensUpTo(i)].lexeme
    ELSE Span(iterations[i])

RECURSIVE Reassembled(_)
Reassembled(n) == IF n = 0 THEN <<>> ELSE Reassembled(n - 1) \o Piece(n)

\* C8: after the scan of a source free of lexical errors the lexemes of the
\* tokens before EOF are substrings of the source on disjoint spans in
\* increasing order, every character outside those spans is a space, "\r",
\* "\t", a newline or part of a "//" comment, and the lexemes put together
\* in order with the discarded text between them give the source back.
C8_LexemesCoverSource ==
    (pc = "done" /\ reports = <<>>) =>
       /\ Len(tokens) = Len(TokenIterations) + 1
       /\ \A k \in 1..Len(TokenIterations) :
             tokens[k].lexeme = Span(TokenIterations[k])
       /\ \A i \in 1..Len(iterations) :
             LET it == iterations[i]
             IN  /\ 0 <= it.from /\ it.from < it.to /\ it.to <= Len(source)
                 /\ it.from = IF i = 1 THEN 0 ELSE iterations[i - 1].to
                 /\ i = Len(iterations) => it.to = Len(source)
                 /\ \/ it.kind = "token"
                    \/ /\ it.kind \in {"blank", "newline"}
                       /\ it.to = it.from + 1
                       /\ source[it.to] \in {32, 13, 9, 10}
                    \/ /\ it.kind = "comment"
                       /\ it.to >= it.from + 2
                       /\ source[it.from + 1] = 47
                       /\ source[it.from + 2] = 47
                       /\ ~HasNewline(Span(it))
       /\ iterations = <<>> => source = <<>>
       /\ Reassembled(Len(iterations)) = source

\* an error-free scan that emitted several tokens and discarded a space and
\* a comment
C8_Witness ==
    /\ pc = "done"
    /\ reports = <<>>
    /\ Len(tokens) > 3
    /\ IterationsOf("blank") # <<>>
    /\ IterationsOf("comment") # <<>>

DigitChars == 48..57

TypesOf(toks) == [i \in 1..Len(toks) |-> toks[i].type]

LexemesOf(toks) == [i \in 1..Len(toks) |-> toks[i].lexeme]

\* digits, then optionally a dot and digits
NumberShaped(text) ==
    /\ text # <<>>
    /\ \A i \in 1..Len(text) : text[i] \in DigitChars \cup {46}
    /\ Cardinality({i \in 1..Len(text) : text[i] = 46}) <= 1
    /\ text[1] \in DigitChars
    /\ text[Len(text)] \in DigitChars

\* C9: numbers are scanned by maximal munch with one character of
\* lookahead past the dot.  In a returned sequence every NUMBER lexeme is
\* a run of digits, or a run of digits, a dot and a run of digits; it is
\* neither preceded nor followed by a digit; a dot that follows it is
\* followed by no digit unless the lexeme has a dot already, and gives the
\* next token, a DOT.  "1.5" is one NUMBER of value 1.5 and "1." is the
\* NUMBER "1" followed by DOT.
C9_NumberMaximalMunch ==
    pc = "done" =>
       /\ \A k \in 1..Len(TokenIterations) :
             LET it == TokenIterations[k]
                 lex == tokens[k].lexeme
                 after(n) == IF it.to + n <= Len(source)
                             THEN source[it.to + n] ELSE 0
             IN  tokens[k].type = "NUMBER" =>
                    /\ lex = Span(it)
                    /\ NumberShaped(lex)
                    /\ it.from > 0 => source[it.from] \notin DigitChars
                    /\ after(1) \notin DigitChars
                    /\ (after(1) = 46 /\ \A i \in 1..Len(lex) : lex[i] # 46)
                       => after(2) \notin DigitChars
                    /\ after(1) = 46 =>
                          /\ tokens[k + 1].type = "DOT"
                          /\ TokenIterations[k + 1].from = it.to
       /\ source = <<49, 46, 53>> =>
             /\ TypesOf(tokens) = <<"NUMBER", "EOF">>
             /\ tokens[1].lexeme = <<49, 46, 53>>
             /\ tokens[1].literal = [kind |-> "number", mant |-> 15, exp |-> 1]
       /\ source = <<49, 46>> =>
             /\ TypesOf(tokens) = <<"NUMBER", "DOT", "EOF">>
             /\ LexemesOf(tokens) = <<<<49>>, <<46>>, <<>>>>

\* a scan that emitted a NUMBER with a fractional part and then, from the
\* dot that follows it, a DOT
C9_Witness ==
    /\ pc = "done"
    /\ Len(tokens) >= 3
    /\ tokens[1].type = "NUMBER"
    /\ \E i \in 1..Len(tokens[1].lexeme) : tokens[1].lexeme[i] = 46
    /\ tokens[2].type = "DOT"
    /\ TokenIterations[2].from = TokenIterations[1].to

\* the token type of operator character ch, alone or followed by "="
OperatorName(ch, withEqual) ==
    CASE ch = 33 -> IF withEqual THEN "BANG_EQUAL" ELSE "BANG"
      [] ch = 61 -> IF withEqual THEN "EQUAL_EQUAL" ELSE "EQUAL"
      [] ch = 60 -> IF withEqual THEN "LESS_EQUAL" ELSE "LESS"
      [] ch = 62 -> IF withEqual THEN "GREATER_EQUAL" ELSE "GREATER"

\* C10: a lexeme-recognition step that starts at "!", "=", "<" or ">"
\* consumes that character and a "=" right after it, if there is one,
\* emits exactly one token, of the two-character type if the "=" was there
\* and of the one-character type otherwise (also at the end of the
\* source), and leaves the scanner at the top of the loop at the next
\* character; "===" gives EQUAL_EQUAL, EQUAL.
C10_OperatorLookahead ==
    /\ [][(pc = "loop" /\ current < Len(source)
           /\ source[current + 1] \in {33, 61, 60, 62})
          => LET ch == source[current + 1]
                 withEqual == /\ current + 1 < Len(source)
                              /\ source[current + 2] = 61
                 n == IF withEqual THEN 2 ELSE 1
             IN  /\ current' = current + n
                 /\ tokens' = Append(tokens,
                       [type |-> OperatorName(ch, withEqual),
                        lexeme |-> SubSeq(source, current + 1, current + n),
                        literal |-> [kind |-> "null"],
                        line |-> line])
                 /\ reports' = reports
                 /\ line' = line
                 /\ pc' = "loop"]_vars
    /\ []((pc = "done" /\ source = <<61, 61, 61>>)
          => /\ TypesOf(tokens) = <<"EQUAL_EQUAL", "EQUAL", "EOF">>
             /\ LexemesOf(tokens) = <<<<61, 61>>, <<61>>, <<>>>>)

\* two-character and one-character operators were emitted, the last one
\* from the last character of the source
C10_Witness ==
    /\ pc = "done"
    /\ TypesOf(tokens) =
          <<"LESS_EQUAL", "GREATER_EQUAL", "LESS", "GREATER", "EOF">>
    /\ source[Len(source)] = 62

LetterChars == (65..90) \cup (97..122) \cup {95}

WordChars == LetterChars \cup DigitChars

\* the 16 reserved words, each with its token type
ReservedWords ==
    { <<<<97, 110, 100>>, "AND">>,
       <<<<99, 108, 97, 115, 115>>, "CLASS">>,
       <<<<101, 108, 115, 101>>, "ELSE">>,
       <<<<102, 97, 108, 115, 101>>, "FALSE">>,
       <<<<102, 111, 114>>, "FOR">>,
       <<<<102, 117, 110>>, "FUN">>,
       <<<<105, 102>>, "IF">>,
       <<<<110, 105, 108>>, "NIL">>,
       <<<<111, 114>>, "OR">>,
       <<<<112, 114, 105, 110, 116>>, "PRINT">>,
       <<<<114, 101, 116, 117, 114, 110>>, "RETURN">>,
       <<<<115, 117, 112, 101, 114>>, "SUPER">>,
       <<<<116, 104, 105, 115>>, "THIS">>,
       <<<<116, 114, 117, 101>>, "TRUE">>,
       <<<<118, 97, 114>>, "VAR">>,
       <<<<119, 104, 105, 108, 101>>, "WHILE">> }

ReservedTypes == {w[2] : w \in ReservedWords}

\* the type of an identifier-shaped lexeme
WordType(text) ==
    IF \E w \in ReservedWords : w[1] = text
    THEN (CHOOSE w \in ReservedWords : w[1] = text)[2]
    ELSE "IDENTIFIER"

\* the token an iteration emitted
TokenOf(i) == tokens[TokensUpTo(i)]

\* C11: an iteration that starts at a letter or "_" emits exactly one
\* token, whose lexeme is the maximal run of letters, digits and "_" from
\* there and whose type is the reserved word's type if the whole lexeme is
\* one of the 16 reserved words and IDENTIFIER otherwise; no other
\* iteration emits such a type, and no identifier-shaped lexeme starts
\* right after a letter or "_".  "classic" is one IDENTIFIER and "class" is
\* one CLASS.
C11_IdentifierOrKeyword ==
    pc = "done" =>
       /\ \A i \in 1..Len(iterations) :
             LET it == iterations[i]
                 word == source[it.from + 1] \in LetterChars
             IN  /\ word =>
                       /\ it.kind = "token"
                       /\ TokenOf(i).lexeme = Span(it)
                       /\ \A j \in (it.from + 1)..it.to :
                             source[j] \in WordChars
                       /\ it.to < Len(source) =>
                             source[it.to + 1] \notin WordChars
                       /\ it.from > 0 => source[it.from] \notin LetterChars
                       /\ TokenOf(i).type = WordType(Span(it))
                       /\ TokenOf(i).literal = [kind |-> "null"]
                 /\ (it.kind = "token" /\ ~word) =>
                       TokenOf(i).type \notin ReservedTypes \cup {"IDENTIFIER"}
       /\ source = <<99, 108, 97, 115, 115, 105, 99>> =>
             TypesOf(tokens) = <<"IDENTIFIER", "EOF">>
       /\ source = <<99, 108, 97, 115, 115>> =>
             TypesOf(tokens) = <<"CLASS", "EOF">>

\* a scan that emitted all 16 reserved-word types
C11_Witness ==
    /\ pc = "done"
    /\ ReservedTypes \subseteq {tokens[k].type : k \in 1..Len(tokens)}
    /\ Cardinality(ReservedTypes) = 16

\* C12: an iteration that starts at "//" discards the text up to, and not
\* including, the next newline or the end of the source, and emits no
\* token; the newline is consumed by the next iteration, which counts it;
\* an iteration that starts at a "/" not followed by "/" emits exactly one
\* SLASH token for that character.  While a comment is skipped, tokens,
\* reports and line do not change.  "// hello\n1" gives NUMBER 1 on line 2
\* and EOF.
C12_CommentOrSlash ==
    /\ [](pc = "done" =>
          /\ \A i \in 1..Len(iterations) :
                LET it == iterations[i]
                    slash == source[it.from + 1] = 47
                    second == /\ it.from + 1 < Len(source)
                              /\ source[it.from + 2] = 47
                IN  /\ (slash /\ second) =>
                          /\ it.kind = "comment"
                          /\ ~HasNewline(Span(it))
                          /\ it.to = Len(source) \/ source[it.to + 1] = 10
                          /\ it.to < Len(source) =>
                                /\ iterations[i + 1].kind = "newline"
                                /\ iterations[i + 1].from = it.to
                                /\ iterations[i + 1].to = it.to + 1
                    /\ (slash /\ ~second) =>
                          /\ it.kind = "token"
                          /\ it.to = it.from + 1
                          /\ TokenOf(i).type = "SLASH"
                          /\ TokenOf(i).lexeme = <<47>>
                    /\ (it.kind = "comment" \/
                        (it.kind = "token" /\ TokenOf(i).type = "SLASH"))
                       => slash
          /\ Len(tokens) = Len(TokenIterations) + 1
          /\ source = <<47, 47, 32, 104, 101, 108, 108, 111, 10, 49>> =>
                /\ TypesOf(tokens) = <<"NUMBER", "EOF">>
                /\ tokens[1].lexeme = <<49>>
                /\ tokens[1].literal = [kind |-> "number", mant |-> 1, exp |-> 0]
                /\ tokens[1].line = 2)
    /\ [][(pc = "comment" \/ pc' = "comment")
          => (tokens' = tokens /\ reports' = reports /\ line' = line)]_vars
    /\ [][(pc = "loop" /\ current < Len(source) /\ source[current + 1] = 10)
          => (line' = line + 1 /\ current' = current + 1 /\ pc' = "loop")]_vars

\* a comment that ends at a newline was skipped after a token, and a SLASH
\* token of the next line followed
C12_Witness ==
    /\ pc = "done"
    /\ Len(iterations) = 4
    /\ iterations[1].kind = "token"
    /\ iterations[2].kind = "comment"
    /\ iterations[3].kind = "newline"
    /\ iterations[4].kind = "token"
    /\ tokens[2].type = "SLASH"
    /\ tokens[2].line = 2

\* the positions (1-based) of the quotes after position p
QuotesAfter(p) == {j \in (p + 1)..Len(source) : source[j] = 34}

\* C13: an iteration that starts at a quote which has a quote after it
\* emits exactly one STRING token, whose lexeme runs from the opening quote
\* through the first quote after it and whose literal is the text strictly
\* between the two, whatever it holds (a backslash before the quote does
\* not keep the string open); without a quote after it the iteration runs
\* to the end of the source and emits nothing.  STRING tokens come from
\* such iterations only.
C13_TerminatedString ==
    pc = "done" =>
       /\ \A i \in 1..Len(iterations) :
             LET it == iterations[i]
                 open == it.from + 1
                 closes == QuotesAfter(open)
                 close == CHOOSE j \in closes : \A h \in closes : j <= h
             IN  /\ (source[open] = 34 /\ closes # {}) =>
                       /\ it.kind = "token"
                       /\ it.to = close
                       /\ TokenOf(i).type = "STRING"
                       /\ TokenOf(i).lexeme = SubSeq(source, open, close)
                       /\ TokenOf(i).literal =
                             [kind |-> "string",
                              value |-> SubSeq(source, open + 1, close - 1)]
                 /\ (source[open] = 34 /\ closes = {}) =>
                       (it.kind = "unterminated" /\ it.to = Len(source))
                 /\ (it.kind = "token" /\ TokenOf(i).type = "STRING")
                       => source[open] = 34
       /\ Len(tokens) = Len(TokenIterations) + 1
       /\ source = <<34, 92, 34, 34>> =>
             /\ TypesOf(tokens) = <<"STRING", "EOF">>
             /\ tokens[1].lexeme = <<34, 92, 34>>
             /\ tokens[1].literal = [kind |-> "string", value |-> <<92>>]

\* a STRING with a body of several characters, one of them a newline, was
\* emitted and another token followed
C13_Witness ==
    /\ pc = "done"
    /\ Len(tokens) = 3
    /\ tokens[1].type = "STRING"
    /\ Len(tokens[1].literal.value) >= 2
    /\ HasNewline(tokens[1].literal.value)
    /\ tokens[2].type # "STRING"

\* C14: in every state 0 <= start <= current <= length of the source: no
\* lookahead and no loop of string, number, identifier or comment moves
\* current past the end, wherever the source ends.
C14_CursorInBounds ==
    /\ 0 <= start
    /\ start <= current
    /\ current <= Len(source)

\* number() stands at a dot that is the last character of the source, so
\* that peekNext looks past the end
C14_Witness ==
    /\ pc = "number"
    /\ start < current
    /\ current + 1 = Len(source)
    /\ source[current + 1] = 46

\* C15: the step that enters an iteration of the main loop sets start to
\* the value of current and moves current forward by at least one; the
\* later steps of the iteration leave start alone and never move current
\* back; every step leaves tokens alone or appends one token to it, and a
\* step that appends a token ends the iteration (or the scan), so that an
\* iteration appends no token or exactly one; every finished iteration
\* consumed at least one character.
C15_IterationShape ==
    /\ [][(pc = "loop" /\ current < Len(source))
          => (start' = current /\ current' >= current + 1)]_vars
    /\ [][pc # "loop" => (start' = start /\ current' >= current)]_vars
    /\ [][\/ tokens' = tokens
          \/ /\ Len(tokens') = Len(tokens) + 1
             /\ SubSeq(tokens', 1, Len(tokens)) = tokens
             /\ pc' \in {"loop", "done"}]_vars
    /\ [][iterations' # iterations
          => /\ iterations' = Append(iterations, Last(iterations'))
             /\ Last(iterations').from = start'
             /\ Last(iterations').to = current'
             /\ Last(iterations').kind = "token" <=> tokens' # tokens]_vars
    /\ [](/\ \A i \in 1..Len(iterations) :
                iterations[i].from < iterations[i].to
          /\ Len(tokens) = Len(TokenIterations)
                           + (IF pc = "done" THEN 1 ELSE 0))

\* after an iteration that emitted nothing and one that emitted a token, a
\* third iteration is on its way with current ahead of start by two
C15_Witness ==
    /\ Len(iterations) = 2
    /\ iterations[1].kind # "token"
    /\ iterations[2].kind = "token"
    /\ pc \notin {"loop", "done"}
    /\ current >= start + 2
    /\ start = iterations[2].to

\* the tokens toks with n added to every line
ShiftLines(toks, n) ==
    [k \in 1..Len(toks) |-> [toks[k] EXCEPT !.line = toks[k].line + n]]

\* C16: when the scan has reported an unexpected character at offset p,
\* the tokens emitted after that report (EOF included) are the tokens of a
\* scan of the rest of the source, source[p+1..], on its own, with the
\* number of newlines before p added to every line; the scan as a whole
\* returns what the scan function gives for the source.
C16_ErrorDoesNotCorrupt ==
    pc = "done" =>
       /\ tokens = scanTokensOf(source)
       /\ \A i \in 1..Len(iterations) :
             LET p == iterations[i].from
                 rest == SubSeq(source, p + 2, Len(source))
                 after == SubSeq(tokens, TokensUpTo(i) + 1, Len(tokens))
             IN  iterations[i].kind = "unexpected" =>
                    /\ iterations[i].to = p + 1
                    /\ after = ShiftLines(scanTokensOf(rest),
                                          NewlinesBefore(source, p))

\* an unexpected character on the second line was reported and a token
\* was emitted after it
C16_Witness ==
    /\ pc = "done"
    /\ Len(iterations) = 3
    /\ iterations[1].kind = "newline"
    /\ iterations[2].kind = "unexpected"
    /\ iterations[3].kind = "token"
    /\ reports = <<UnexpectedReport(2)>>
    /\ Len(tokens) = 2
    /\ tokens[1].line = 2

\* C17: the lines of the tokens, EOF included, are at least 1 and never
\* decrease along the sequence.
C17_LinesNonDecreasing ==
    \A k \in 1..Len(tokens) :
       /\ tokens[k].line >= 1
       /\ k < Len(tokens) => tokens[k].line <= tokens[k + 1].line

\* a returned sequence with two tokens on one line and later tokens on
\* later lines
C17_Witness ==
    /\ pc = "done"
    /\ Len(tokens) >= 4
    /\ tokens[1].line = tokens[2].line
    /\ tokens[2].line < tokens[3].line
    /\ tokens[3].line < Last(tokens).line

\* the report string() makes when the source ends inside a string
UnterminatedReport(ln) == [line |-> ln, message |-> "unexpected character."]

\* C18: string() reports an unterminated string at most once in a scan, and
\* only with current at the end of the source; the report carries the line
\* counter after every newline inside the string was counted, which is the
\* last line of the source; the iteration that reports emits no token, is
\* the last one, and after it nothing is reported and nothing but EOF is
\* appended.
C18_UnterminatedOnceAtEnd ==
    /\ [][(iterations' # iterations
           /\ Last(iterations').kind = "unterminated")
          => /\ current' = Len(source)
             /\ tokens' = tokens
             /\ reports' = Append(reports,
                   UnterminatedReport(
                       1 + NewlinesBefore(source, Len(source))))]_vars
    /\ [][(iterations # <<>> /\ Last(iterations).kind = "unterminated")
          => /\ reports' = reports
             /\ iterations' = iterations
             /\ tokens' = Append(tokens, EofToken(Last(reports).line))
             /\ pc' = "done"]_vars
    /\ [](/\ Len(IterationsOf("unterminated")) <= 1
          /\ Len(SelectSeq(reports,
                    LAMBDA r : r.message = "unexpected character."))
             = Len(IterationsOf("unterminated")))

\* an unterminated string that opened on line 1 and holds two newlines was
\* reported with line 3, after a token
C18_Witness ==
    /\ pc = "done"
    /\ Len(iterations) = 2
    /\ iterations[1].kind = "token"
    /\ iterations[2].kind = "unterminated"
    /\ NewlinesBefore(source, iterations[2].from) = 0
    /\ reports = <<UnterminatedReport(3)>>
    /\ Len(tokens) = 2

====
